---- MODULE Spec2Model ----
(***************************************************************************)
(* Delivery Routes screen (src/src/pages/DeliveryRoutes.tsx): the stop     *)
(* list of one driver and date, its drag-and-drop reordering, the          *)
(* update-sequence requests to the order store and the directions          *)
(* requests to the routing provider.                                       *)
(*                                                                         *)
(* One action is one event of the browser's event loop: a user event or    *)
(* the arrival of a response, together with the re-renders and the         *)
(* useEffect callbacks it causes (state updates made in one event are      *)
(* batched into one render; effects run in declaration order after it).    *)
(***************************************************************************)
EXTENDS Integers, Sequences, FiniteSets, TLC

----------------------------------------------------------------------------
(* Bounds of the model.                                                    *)

\* requests (load, update-sequence, directions) in flight at the same time
MaxInFlight == 2

\* the length of the longest list reordered in SpecMove
MaxStops == 4

\* error toasts shown by the API client
MaxToasts == 2

\* requests of the Assign Driver page in flight at once
MaxAssign == 2

----------------------------------------------------------------------------
(* Values.                                                                 *)

\* selectedDriver === null
NoDriver == "none"

\* A Date as getFullYear(), getMonth() (0-based) and getDate() read it.
\* selectedDate === null (the date picker was cleared):
NoDate == [year |-> 0, month |-> 0, date |-> 0]

\* new Date(): the day the screen is opened on
Today == [year |-> 2025, month |-> 0, date |-> 15]

\* the dates the user picks
Dates == {Today}

\* `${getFullYear()}-${getMonth() + 1}-${getDate()}`: the fields of the
\* YYYY-MM-DD string (the zero padding does not change which day is named)
DateStr(d) == <<d.year, d.month + 1, d.date>>

\* an absent number: deliverySequence, latitude or longitude undefined / null
Absent == -1

\* draggedIndex === null
NoIndex == -1

\* selectedCustomer === null
NoCustomer == "none"

\* the drivers GET /drivers returns
DriverIds == {"d1", "d2"}

\* a third driver, whose stops are s1, s2, ...
DragDriver == "d3"

StopNames == <<"s1", "s2", "s3", "s4", "s5">>

Stops == {StopNames[k] : k \in 1..Len(StopNames)}

\* the stops of the list reordered in SpecDrag
DragStops == {"s1", "s2", "s3"}

\* a fourth driver, whose three orders are loaded in SpecSort
SortDriver == "d4"

\* a fifth driver, who has no orders
VacantDriver == "d5"

SortStops == {"t1", "t2", "t3"}

\* d1 has a base coordinate, d2 has none
DriverLat(d) == IF d = "d1" THEN 48137 ELSE Absent

DriverLng(d) == IF d = "d1" THEN 11575 ELSE Absent

\* the fallback coordinate { lat: 52.52, lng: 13.405 }, in 1/1000 degree
DefaultLat == 52520

DefaultLng == 13405

\* The orders the store holds, all for today.  o1 and o2 belong to d1, o3
\* and o4 to d2; the stops s1, s2, ... belong to d3 and t1, t2, t3 to d4, and
\* all of these have a coordinate.
OrderIds == {"o1", "o2", "o3", "o4"} \cup Stops \cup SortStops

OrderDriver(o) ==
    IF o \in {"o1", "o2"} THEN "d1"
    ELSE IF o \in {"o3", "o4"} THEN "d2"
    ELSE IF o \in SortStops THEN SortDriver
    ELSE DragDriver

\* the delivery day of an order, as the store's date string
OrderDate(o) == DateStr(Today)

\* orderNumber as its string of digits: "9", "10", "3", "5"; "21", "22",
\* "23" for the orders of d4; "7" for the stops of d3
OrderNumber(o) ==
    CASE o = "o1" -> <<9>>
      [] o = "o2" -> <<1, 0>>
      [] o = "o3" -> <<3>>
      [] o = "o4" -> <<5>>
      [] o = "t1" -> <<2, 1>>
      [] o = "t2" -> <<2, 2>>
      [] o = "t3" -> <<2, 3>>
      [] OTHER    -> <<7>>

\* customer.latitude: o3 lies on the equator (latitude 0)
CustLat(o) ==
    CASE o = "o1" -> 52000
      [] o = "o2" -> 52100
      [] o = "o3" -> 0
      [] o = "o4" -> 52300
      [] OTHER    -> 52400

CustLng(o) ==
    CASE o = "o1" -> 13000
      [] o = "o2" -> 13100
      [] o = "o3" -> 13200
      [] o = "o4" -> 13300
      [] OTHER    -> 13500

\* the store gives the element at array position k (0-based) the sequence
\* number k + SeqBase
SeqBase == 0

\* An Order object of a response: its _id and its deliverySequence.  The
\* sort in fetchOrders is the only reader of deliverySequence, so the lists
\* the screen keeps (orders, draggableOrder) are modelled as lists of _id.
Order(o, seq) == [id |-> o, deliverySequence |-> seq]

\* the value `undefined` where an Order is expected
Undefined == "undefined"

\* JavaScript truthiness of an optional number: undefined, null and 0 are falsy
Truthy(n) == n # Absent /\ n # 0

----------------------------------------------------------------------------
(* Sequence helpers.                                                       *)

Range(s) == {s[i] : i \in 1..Len(s)}

Reverse(s) == [i \in 1..Len(s) |-> s[Len(s) + 1 - i]]

RemoveAt(s, i) == SubSeq(s, 1, i - 1) \o SubSeq(s, i + 1, Len(s))

InsertAt(s, i, e) == SubSeq(s, 1, i - 1) \o <<e>> \o SubSeq(s, i, Len(s))

\* the sequences that list every element of S exactly once
Perms(S) ==
    {f \in [1..Cardinality(S) -> S] : \A i, j \in 1..Cardinality(S) : f[i] = f[j] => i = j}

Min(a, b) == IF a < b THEN a ELSE b

\* Requests in flight form a bag: a function from request to its count.
EmptyBag == <<>>

BagAdd(B, r) == IF r \in DOMAIN B THEN [B EXCEPT ![r] = @ + 1] ELSE B @@ (r :> 1)

BagRemove(B, r) ==
    IF B[r] > 1 THEN [B EXCEPT ![r] = @ - 1] ELSE [x \in DOMAIN B \ {r} |-> B[x]]

RECURSIVE BagSize(_)
BagSize(B) ==
    IF DOMAIN B = {} THEN 0
    ELSE LET r == CHOOSE x \in DOMAIN B : TRUE
         IN  B[r] + BagSize([x \in DOMAIN B \ {r} |-> B[x]])

----------------------------------------------------------------------------
(* Pure functions of the screen.                                           *)

\* order.customer.latitude && order.customer.longitude
HasCoords(o) == Truthy(CustLat(o)) /\ Truthy(CustLng(o))

\* orders.filter(order => order.customer.latitude && order.customer.longitude)
FilterWithCoords(s) == SelectSeq(s, HasCoords)

\* a.localeCompare(b) on digit strings: -1, 0 or 1
RECURSIVE LocaleCompare(_, _)
LocaleCompare(a, b) ==
    IF a = <<>> /\ b = <<>> THEN 0
    ELSE IF a = <<>> THEN -1
    ELSE IF b = <<>> THEN 1
    ELSE IF Head(a) < Head(b) THEN -1
    ELSE IF Head(a) > Head(b) THEN 1
    ELSE LocaleCompare(Tail(a), Tail(b))

\* the comparator handed to sort
CompareOrders(a, b) ==
    IF Truthy(a.deliverySequence) /\ Truthy(b.deliverySequence)
    THEN a.deliverySequence - b.deliverySequence
    ELSE LocaleCompare(OrderNumber(a.id), OrderNumber(b.id))

\* Array.prototype.sort on a short array: the first run is found (and
\* reversed when strictly descending), the rest is inserted by binary search.
RECURSIVE RunLength(_, _, _)
RunLength(s, desc, k) ==
    IF k = Len(s) THEN k
    ELSE LET c == CompareOrders(s[k + 1], s[k])
         IN  IF (desc /\ c >= 0) \/ (~desc /\ c < 0) THEN k
             ELSE RunLength(s, desc, k + 1)

RECURSIVE BinarySearch(_, _, _, _)
BinarySearch(s, pivot, left, right) ==
    IF left >= right THEN left
    ELSE LET mid == left + ((right - left) \div 2)
         IN  IF CompareOrders(pivot, s[mid]) < 0
             THEN BinarySearch(s, pivot, left, mid)
             ELSE BinarySearch(s, pivot, mid + 1, right)

RECURSIVE BinaryInsertionSort(_, _)
BinaryInsertionSort(s, start) ==
    IF start > Len(s) THEN s
    ELSE LET pos == BinarySearch(s, s[start], 1, start)
         IN  BinaryInsertionSort(InsertAt(RemoveAt(s, start), pos, s[start]), start + 1)

SortOrders(s) ==
    IF Len(s) < 2 THEN s
    ELSE LET desc == CompareOrders(s[2], s[1]) < 0
             run  == RunLength(s, desc, 2)
             made == IF desc
                     THEN Reverse(SubSeq(s, 1, run)) \o SubSeq(s, run + 1, Len(s))
                     ELSE s
         IN  BinaryInsertionSort(made, run + 1)

\* A move that reinserts at the index counted after the removal's shift of
\* the original list (to - 1 when from < to): the variant C8 and C11 tell
\* from MoveStop.
MoveStopShifted(list, from, to) ==
    LET rest == RemoveAt(list, from + 1)
        at   == IF from < to THEN to - 1 ELSE to
    IN  InsertAt(rest, at + 1, list[from + 1])

\* handleDrop's two splices on a copy of the list; from and to are 0-based.
\* splice(from, 1) removes nothing when from is past the end, and the
\* destructured `removed` is then undefined; splice(to, 0, removed) inserts
\* at min(to, length).
MoveStop(list, from, to) ==
    LET removed == IF from < Len(list) THEN list[from + 1] ELSE Undefined
        rest    == IF from < Len(list) THEN RemoveAt(list, from + 1) ELSE list
    IN  InsertAt(rest, Min(to, Len(rest)) + 1, removed)

\* response.data as the list of its orders' ids
IdsOf(resp) == [i \in 1..Len(resp) |-> resp[i].id]

\* A base location that is the Berlin fallback for every driver: the variant
\* C19 tells from BaseLocation.
BaseLocationDefault(driver) == [lat |-> DefaultLat, lng |-> DefaultLng]

\* baseLocation of the render: the driver's coordinate or the Berlin fallback
BaseLocation(driver) ==
    IF driver # NoDriver /\ Truthy(DriverLat(driver)) /\ Truthy(DriverLng(driver))
    THEN [lat |-> DriverLat(driver), lng |-> DriverLng(driver)]
    ELSE [lat |-> DefaultLat, lng |-> DefaultLng]

\* [baseLocation, ...stops, baseLocation]
RoutePoints(base, stops) ==
    <<base>> \o [i \in 1..Len(stops) |-> [lat |-> CustLat(stops[i]), lng |-> CustLng(stops[i])]]
             \o <<base>>

\* one leg between each consecutive pair of points
LegsOf(points) ==
    [i \in 1..(Len(points) - 1) |-> [start |-> points[i], end |-> points[i + 1]]]

\* the waypoints of a directions request: one per order of the list, in order
Waypoints(list) ==
    [i \in 1..Len(list) |->
        [location |-> [lat |-> CustLat(list[i]), lng |-> CustLng(list[i])],
         stopover |-> TRUE]]

\* A request whose waypoints are in the reverse of the list order: the
\* variant C15 tells from DirectionsRequest.
DirectionsRequestReversed(list, base) ==
    [origin |-> base, destination |-> base, waypoints |-> Waypoints(Reverse(list)),
     optimizeWaypoints |-> FALSE]

\* the DirectionsRequest initializeMap builds
DirectionsRequest(list, base) ==
    [origin |-> base, destination |-> base, waypoints |-> Waypoints(list),
     optimizeWaypoints |-> FALSE]

\* the value a road leg between two points measures (the same number stands
\* for its metres and its seconds); 0 for a leg between equal points
LegValue(a, b) ==
    (IF a.lat > b.lat THEN a.lat - b.lat ELSE b.lat - a.lat)
        + (IF a.lng > b.lng THEN a.lng - b.lng ELSE b.lng - a.lng)

\* legs.reduce((total, leg) => total + (leg[field]?.value || 0), 0)
\* A total that leaves out the leg back to the base: the variant C16 tells
\* from TotalOf.
RECURSIVE TotalOfOutbound(_, _)
TotalOfOutbound(legs, field) ==
    IF Len(legs) <= 1 THEN 0
    ELSE LET value == legs[1][field]
         IN  (IF Truthy(value) THEN value ELSE 0) + TotalOfOutbound(Tail(legs), field)

RECURSIVE TotalOf(_, _)
TotalOf(legs, field) ==
    IF legs = <<>> THEN 0
    ELSE LET value == legs[Len(legs)][field]
         IN  TotalOf(SubSeq(legs, 1, Len(legs) - 1), field)
                 + (IF Truthy(value) THEN value ELSE 0)

----------------------------------------------------------------------------
(* State.                                                                  *)

VARIABLES
    drivers,          \* useState<Driver[]>: the set of driver ids fetched
    selectedDriver,   \* a driver id or NoDriver
    selectedDate,     \* a Date or NoDate
    orders,           \* the loaded orders, in the order the store returned them
    loading,
    routeLoading,
    draggableOrder,   \* the sequenced stop list
    draggedIndex,     \* 0-based index recorded at drag start, or NoIndex
    selectedCustomer, \* the order whose customer is selected, or NoCustomer
    routeInfo,        \* <<>> for null, else <<[totalDistance, totalDuration, legs]>>
    fallbackRoute,    \* the straight-line legs drawn on the map the element shows
    crashed,          \* a render threw and React unmounted the screen
    mapsLoaded,       \* window.google && window.google.maps
    driversPending,   \* GET /drivers is in flight
    loadPending,      \* GET /orders requests in flight (a bag)
    persistPending,   \* POST /orders/update-sequence requests in flight (a bag)
    dirPending,       \* directions requests in flight (a bag)
    store,            \* the order store: deliverySequence of each order
    lastEvent,        \* history: the event handled last
    token,            \* localStorage holds "token"
    user,             \* localStorage holds "user"
    location,         \* window.location.href, as a path
    toasts,           \* the number of error toasts showGlobalError has shown
    outcome,          \* how the last api call settled: NoOutcome or what it was rejected with
    authLoading,      \* useAuth().loading
    isAuthenticated,  \* useAuth().isAuthenticated
    guardView,        \* what PrivateRoute rendered
    unassignedOrders,     \* AssignDriver: the ids of the orders fetched, as listed
    assignDrivers,        \* AssignDriver: drivers, the ids of the drivers fetched
    assignLoading,        \* AssignDriver: loading
    assignSelectedDriver, \* AssignDriver: selectedDriver, a driver id or NoDriver
    selectedOrders,       \* AssignDriver: the array of selected order ids
    snackbar,             \* AssignDriver: [open, message, severity]
    fetchPending,         \* AssignDriver: fetchData calls in flight
    assignPending,        \* AssignDriver: POST /orders/assign-driver in flight (a bag)
    assignEvent           \* history: the event the Assign Driver page handled last

vars ==
    <<drivers, selectedDriver, selectedDate, orders, loading, routeLoading,
      draggableOrder, draggedIndex, selectedCustomer, routeInfo, fallbackRoute, crashed,
      mapsLoaded, driversPending, loadPending, persistPending, dirPending, store, lastEvent,
      token, user, location, toasts, outcome, authLoading, isAuthenticated, guardView,
      unassignedOrders, assignDrivers, assignLoading, assignSelectedDriver, selectedOrders,
      snackbar, fetchPending, assignPending, assignEvent>>

\* the state of the API client
clientVars == <<token, user, location, toasts, outcome>>

\* the state of the route guard
guardVars == <<authLoading, isAuthenticated, guardView>>

\* the state of the Assign Driver page
assignVars ==
    <<unassignedOrders, assignDrivers, assignLoading, assignSelectedDriver, selectedOrders,
      snackbar, fetchPending, assignPending, assignEvent>>

\* the state outside the Delivery Routes page
otherVars == <<clientVars, guardVars, assignVars>>

\* the state of the Delivery Routes page
pageVars ==
    <<drivers, selectedDriver, selectedDate, orders, loading, routeLoading,
      draggableOrder, draggedIndex, selectedCustomer, routeInfo, fallbackRoute, crashed,
      mapsLoaded, driversPending, loadPending, persistPending, dirPending, store, lastEvent>>

\* no api call has settled yet
NoOutcome == [kind |-> "none"]

\* useState's initial value of snackbar
SnackbarClosed == [open |-> FALSE, message |-> "", severity |-> "success"]

\* the useState initial values of the Assign Driver page
AssignInitialState ==
    /\ unassignedOrders = <<>>
    /\ assignDrivers = <<>>
    /\ assignLoading = TRUE
    /\ assignSelectedDriver = NoDriver
    /\ selectedOrders = <<>>
    /\ snackbar = SnackbarClosed

\* the Assign Driver page is not mounted: nothing of it is in flight
AssignAtRest ==
    /\ AssignInitialState
    /\ fetchPending = 0
    /\ assignPending = EmptyBag
    /\ assignEvent = "none"

\* the Delivery Routes page is rendered for a user who is logged in: the
\* guard has rendered its children and no call has been rejected; the Assign
\* Driver page is not mounted
OtherPagesAtRest ==
    /\ AssignAtRest
    /\ token = TRUE
    /\ user = TRUE
    /\ location = "/"
    /\ toasts = 0
    /\ outcome = NoOutcome
    /\ authLoading = FALSE
    /\ isAuthenticated = TRUE
    /\ guardView = "children"

\* the state of the route part
routeVars == <<routeLoading, routeInfo, fallbackRoute, dirPending>>

\* the number of requests in flight, given the three bags
InFlight(l, p, d) == BagSize(l) + BagSize(p) + BagSize(d)

\* the list branch of the left panel is rendered: the cards can be dragged
CardsRendered == ~loading /\ orders # <<>>

----------------------------------------------------------------------------
(* initializeMap and the effects.                                          *)

\* the requests in flight once a newer Map has replaced theirs
Superseded(B) ==
    LET Count(r) == IF r \in DOMAIN B THEN B[r] ELSE 0
    IN  [r \in {[x EXCEPT !.current = FALSE] : x \in DOMAIN B} |->
            Count(r) + Count([r EXCEPT !.current = TRUE])]

\* a map without straight-line legs
NoRoute == <<>>

\* initializeMap() of a render whose draggableOrder is `list`, applied to the
\* route state rs = [routeLoading, dirPending, fallbackRoute].  A new Map
\* replaces the one the element showed, so the requests issued before are no
\* longer the current one.  A request in flight is the DirectionsRequest sent
\* together with the list and the base location its callback has closed over.
InitializeMap(list, base, rs) ==
    LET older == Superseded(rs.dirPending)
    IN  IF Len(list) > 0
        THEN [routeLoading  |-> TRUE,
              dirPending    |-> BagAdd(older, [stops |-> list, base |-> base,
                                               request |-> DirectionsRequest(list, base),
                                               current |-> TRUE]),
              fallbackRoute |-> NoRoute]
        ELSE [routeLoading |-> FALSE, dirPending |-> older, fallbackRoute |-> NoRoute]

\* the effect on [initializeMap]: it runs after every render with a new
\* draggableOrder and calls initializeMap once the maps script is loaded
MapEffect(list, base, rs) == IF mapsLoaded THEN InitializeMap(list, base, rs) ELSE rs

RouteState ==
    [routeLoading |-> routeLoading, dirPending |-> dirPending,
     fallbackRoute |-> fallbackRoute]

\* the legs of the route a provider returns for a request: one per
\* consecutive pair of origin, waypoints in the order given, destination
ProviderLegs(req) ==
    LegsOf(<<req.request.origin>>
               \o [i \in 1..Len(req.request.waypoints) |-> req.request.waypoints[i].location]
               \o <<req.request.destination>>)

\* result.routes[0] of an OK answer: each leg with its distance.value and
\* duration.value.  The provider may leave the distance and the duration of
\* a leg undefined; when `known` is false it does so for the legs between
\* equal points.
ProviderResult(req, known) ==
    [legs |-> [i \in 1..Len(ProviderLegs(req)) |->
                  LET leg == ProviderLegs(req)[i]
                      value == IF ~known /\ leg.start = leg.end THEN Absent
                               ELSE LegValue(leg.start, leg.end)
                  IN  [start |-> leg.start, end |-> leg.end,
                       distance |-> value, duration |-> value]]]

\* the answers with status OK the provider may give to a request
ProviderResults(req) == {ProviderResult(req, known) : known \in BOOLEAN}

\* setRouteInfo({totalDistance, totalDuration, legs: route.legs.map(...)})
RouteInfoOf(route) ==
    <<[totalDistance |-> TotalOf(route.legs, "distance"),
       totalDuration |-> TotalOf(route.legs, "duration"),
       legs |-> [i \in 1..Len(route.legs) |->
                    [distance     |-> route.legs[i].distance,
                     duration     |-> route.legs[i].duration,
                     startAddress |-> route.legs[i].start,
                     endAddress   |-> route.legs[i].end]]]>>

\* Polylines that stop at the last stop, without the leg back to the base:
\* the variant C17 tells from FallbackPolylines.
FallbackPolylinesOpen(req) ==
    LegsOf(SubSeq(RoutePoints(req.base, req.stops), 1, Len(req.stops) + 1))

\* the straight polylines drawn when the request failed: one between each
\* consecutive pair of [baseLocation, ...stops, baseLocation]
FallbackPolylines(req) == LegsOf(RoutePoints(req.base, req.stops))

\* the store's orders of a driver and day
StoreOrders(driverId, dateStr) ==
    {o \in OrderIds : OrderDriver(o) = driverId /\ OrderDate(o) = dateStr}

\* what GET /orders may answer: the orders in any order, each with its
\* stored sequence number
StoreResponses(driverId, dateStr) ==
    {[i \in 1..Len(p) |-> Order(p[i], store[p[i]])] : p \in Perms(StoreOrders(driverId, dateStr))}

\* the store after it has processed an update-sequence request
StoreAfter(ids) ==
    [o \in OrderIds |->
        IF \E k \in 1..Len(ids) : ids[k] = o
        THEN (CHOOSE k \in 1..Len(ids) : ids[k] = o) - 1 + SeqBase
        ELSE store[o]]

----------------------------------------------------------------------------
(* Initial state: after the first render and its effects.  fetchOrders     *)
(* returns at once (no driver), fetchDrivers is in flight, initializeMap    *)
(* finds an empty list.                                                    *)

InitPage ==
    /\ drivers = {}
    /\ selectedDriver = NoDriver
    /\ selectedDate = Today
    /\ orders = <<>>
    /\ loading = FALSE
    /\ routeLoading = FALSE
    /\ draggableOrder = <<>>
    /\ draggedIndex = NoIndex
    /\ selectedCustomer = NoCustomer
    /\ routeInfo = <<>>
    /\ fallbackRoute = NoRoute
    /\ crashed = FALSE
    /\ mapsLoaded \in BOOLEAN
    /\ driversPending = TRUE
    /\ loadPending = EmptyBag
    /\ persistPending = EmptyBag
    /\ dirPending = EmptyBag
    /\ store = [o \in OrderIds |-> Absent]
    /\ lastEvent = "mount"

Init == InitPage /\ OtherPagesAtRest

----------------------------------------------------------------------------
(* Actions.                                                                *)

\* GET /drivers answered
FetchDriversOk ==
    /\ ~crashed /\ driversPending
    /\ driversPending' = FALSE
    /\ drivers' = DriverIds
    /\ lastEvent' = "driversOk"
    /\ UNCHANGED <<otherVars, selectedCustomer, selectedDriver, selectedDate, orders, loading, draggableOrder,
                   draggedIndex, crashed, mapsLoaded, loadPending, persistPending, store>>
    /\ UNCHANGED routeVars

\* GET /drivers failed: the catch is empty
FetchDriversFail ==
    /\ ~crashed /\ driversPending
    /\ driversPending' = FALSE
    /\ lastEvent' = "driversFail"
    /\ UNCHANGED <<otherVars, selectedCustomer, drivers, selectedDriver, selectedDate, orders, loading, draggableOrder,
                   draggedIndex, crashed, mapsLoaded, loadPending, persistPending, store>>
    /\ UNCHANGED routeVars

\* The effect on [fetchOrders], run after a render with a new driver or date:
\* fetchOrders() up to its await, then setRouteInfo(null).
FetchOrdersEffect(driver, date) ==
    /\ IF driver # NoDriver /\ date # NoDate
       THEN /\ loading' = TRUE
            /\ loadPending' = BagAdd(loadPending, [driver |-> driver, date |-> DateStr(date)])
       ELSE UNCHANGED <<loading, loadPending>>
    /\ routeInfo' = <<>>

\* the driver Select's onChange
SelectDriver(d) ==
    /\ ~crashed
    /\ d \in drivers /\ d # selectedDriver
    /\ InFlight(loadPending, persistPending, dirPending) < MaxInFlight
    /\ selectedDriver' = d
    /\ FetchOrdersEffect(d, selectedDate)
    /\ lastEvent' = "selectDriver"
    /\ UNCHANGED <<otherVars, selectedCustomer, drivers, selectedDate, orders, routeLoading, draggableOrder, draggedIndex,
                   fallbackRoute, crashed, mapsLoaded, driversPending, persistPending, dirPending,
                   store>>

\* the DatePicker's onChange
SelectDate(t) ==
    /\ ~crashed
    /\ t # selectedDate
    /\ InFlight(loadPending, persistPending, dirPending) < MaxInFlight
    /\ selectedDate' = t
    /\ FetchOrdersEffect(selectedDriver, t)
    /\ lastEvent' = "selectDate"
    /\ UNCHANGED <<otherVars, selectedCustomer, drivers, selectedDriver, orders, routeLoading, draggableOrder, draggedIndex,
                   fallbackRoute, crashed, mapsLoaded, driversPending, persistPending, dirPending,
                   store>>

\* fetchOrders' sortedOrders: the orders of the response that pass the
\* coordinate filter, sorted
SortedStops(resp) == IdsOf(SortOrders(SelectSeq(resp, LAMBDA ord : HasCoords(ord.id))))

\* The list the screen shows once a response has been handled: fetchOrders
\* sets the sorted list, and the effect on [orders], which runs after the
\* render, sets the filtered list in the order of the response.
ListAfterLoad(resp) == FilterWithCoords(IdsOf(resp))

\* GET /orders answered with `resp`: the continuation of fetchOrders, the
\* render it causes, the effect on [orders] and the effect on [initializeMap]
\* of that render (the sorted list) and of the next (the filtered list).
LoadOk(req, resp) ==
    LET sorted == SortedStops(resp)
        base   == BaseLocation(selectedDriver)
        rs     == MapEffect(ListAfterLoad(resp), base, MapEffect(sorted, base, RouteState))
    IN  /\ ~crashed
        /\ InFlight(BagRemove(loadPending, req), persistPending, rs.dirPending) <= MaxInFlight
        /\ loadPending' = BagRemove(loadPending, req)
        /\ orders' = IdsOf(resp)
        /\ loading' = FALSE
        /\ draggableOrder' = ListAfterLoad(resp)
        /\ routeLoading' = rs.routeLoading
        /\ dirPending' = rs.dirPending
        /\ fallbackRoute' = rs.fallbackRoute
        /\ lastEvent' = "loadOk"
        /\ UNCHANGED <<otherVars, selectedCustomer, drivers, selectedDriver, selectedDate, draggedIndex, routeInfo, crashed, mapsLoaded,
                       driversPending, persistPending, store>>

\* GET /orders failed: catch, finally
LoadFail(req) ==
    /\ ~crashed
    /\ loadPending' = BagRemove(loadPending, req)
    /\ loading' = FALSE
    /\ lastEvent' = "loadFail"
    /\ UNCHANGED <<otherVars, selectedCustomer, drivers, selectedDriver, selectedDate, orders, draggableOrder, draggedIndex,
                   crashed, mapsLoaded, driversPending, persistPending, store>>
    /\ UNCHANGED routeVars

\* A drag start after which the map is initialized again: the variant C24
\* tells from handleDragStart.
handleDragStartRouting(index) ==
    LET rs == MapEffect(draggableOrder, BaseLocation(selectedDriver), RouteState)
    IN  /\ ~crashed /\ CardsRendered
        /\ index \in 0..(Len(draggableOrder) - 1)
        /\ InFlight(loadPending, persistPending, rs.dirPending) <= MaxInFlight
        /\ draggedIndex' = index
        /\ routeLoading' = rs.routeLoading
        /\ dirPending' = rs.dirPending
        /\ fallbackRoute' = rs.fallbackRoute
        /\ lastEvent' = "dragStart"
        /\ UNCHANGED <<otherVars, selectedCustomer, drivers, selectedDriver, selectedDate, orders, loading,
                       draggableOrder, routeInfo, crashed, mapsLoaded, driversPending,
                       loadPending, persistPending, store>>

\* a card's onDragStart
handleDragStart(index) ==
    /\ ~crashed /\ CardsRendered
    /\ index \in 0..(Len(draggableOrder) - 1)
    /\ draggedIndex' = index
    /\ lastEvent' = "dragStart"
    /\ UNCHANGED <<otherVars, selectedCustomer, drivers, selectedDriver, selectedDate, orders, loading, draggableOrder,
                   crashed, mapsLoaded, driversPending, loadPending, persistPending, store>>
    /\ UNCHANGED routeVars

\* a card's onDragOver: preventDefault, no state is set
handleDragOver(index) ==
    /\ ~crashed /\ CardsRendered
    /\ index \in 0..(Len(draggableOrder) - 1)
    /\ lastEvent' = "dragOver"
    /\ UNCHANGED <<otherVars, selectedCustomer, drivers, selectedDriver, selectedDate, orders, loading,
                   draggableOrder, draggedIndex, crashed, mapsLoaded, driversPending,
                   loadPending, persistPending, store>>
    /\ UNCHANGED routeVars

\* a card's onClick: setSelectedCustomer(order.customer)
SelectCustomer(index) ==
    /\ ~crashed /\ CardsRendered
    /\ index \in 0..(Len(draggableOrder) - 1)
    /\ selectedCustomer' = draggableOrder[index + 1]
    /\ lastEvent' = "selectCustomer"
    /\ UNCHANGED <<otherVars, drivers, selectedDriver, selectedDate, orders, loading,
                   draggableOrder, draggedIndex, crashed, mapsLoaded, driversPending,
                   loadPending, persistPending, store>>
    /\ UNCHANGED routeVars

handleDragEnd ==
    /\ ~crashed /\ CardsRendered
    /\ draggedIndex' = NoIndex
    /\ lastEvent' = "dragEnd"
    /\ UNCHANGED <<otherVars, selectedCustomer, drivers, selectedDriver, selectedDate, orders, loading, draggableOrder,
                   crashed, mapsLoaded, driversPending, loadPending, persistPending, store>>
    /\ UNCHANGED routeVars

\* saveDeliverySequence(newOrder) up to its await: the requests it posts (one
\* or none).  Mapping an undefined element throws inside the try and is caught.
SaveRequests(newOrder) ==
    IF selectedDriver = NoDriver \/ selectedDate = NoDate THEN {}
    ELSE IF Undefined \in Range(newOrder) THEN {}
    ELSE {[orderIds |-> newOrder, driverId |-> selectedDriver,
           deliveryDate |-> DateStr(selectedDate)]}

\* An early return that tests only for null: the variant C10 tells from
\* DropIgnored.
DropIgnoredOnNull(index) == draggedIndex = NoIndex

\* handleDrop's early return
DropIgnored(index) == draggedIndex = NoIndex \/ draggedIndex = index

\* a card's onDrop, the render it causes and the effect on [initializeMap]
handleDrop(index) ==
    /\ ~crashed /\ CardsRendered
    /\ index \in 0..(Len(draggableOrder) - 1)
    /\ IF DropIgnored(index)
       THEN /\ lastEvent' = "dropIgnored"
            /\ UNCHANGED <<draggableOrder, draggedIndex, persistPending, crashed>>
            /\ UNCHANGED routeVars
       ELSE LET newOrder == MoveStop(draggableOrder, draggedIndex, index)
                posted == IF SaveRequests(newOrder) = {} THEN persistPending
                          ELSE BagAdd(persistPending, CHOOSE r \in SaveRequests(newOrder) : TRUE)
                rs == MapEffect(newOrder, BaseLocation(selectedDriver), RouteState)
            IN  /\ draggableOrder' = newOrder
                /\ draggedIndex' = NoIndex
                /\ persistPending' = posted
                /\ lastEvent' = "drop"
                /\ routeInfo' = routeInfo
                /\ IF Undefined \in Range(newOrder)
                   THEN \* the render reads order.customer of undefined and throws
                        /\ crashed' = TRUE
                        /\ UNCHANGED <<routeLoading, dirPending, fallbackRoute>>
                   ELSE /\ InFlight(loadPending, posted, rs.dirPending) <= MaxInFlight
                        /\ crashed' = FALSE
                        /\ routeLoading' = rs.routeLoading
                        /\ dirPending' = rs.dirPending
                        /\ fallbackRoute' = rs.fallbackRoute
    /\ UNCHANGED <<otherVars, selectedCustomer, drivers, selectedDriver, selectedDate, orders, loading, mapsLoaded,
                   driversPending, loadPending, store>>

\* the store processes an update-sequence request and acknowledges it
PersistOk(req) ==
    /\ ~crashed
    /\ persistPending' = BagRemove(persistPending, req)
    /\ store' = StoreAfter(req.orderIds)
    /\ lastEvent' = "persistOk"
    /\ UNCHANGED <<otherVars, selectedCustomer, drivers, selectedDriver, selectedDate, orders, loading, draggableOrder,
                   draggedIndex, crashed, mapsLoaded, driversPending, loadPending>>
    /\ UNCHANGED routeVars

\* A catch that puts the loaded order back: the variant C5 tells from
\* PersistFail.
PersistFailRollback(req) ==
    /\ ~crashed
    /\ persistPending' = BagRemove(persistPending, req)
    /\ draggableOrder' = FilterWithCoords(orders)
    /\ lastEvent' = "persistFail"
    /\ UNCHANGED <<otherVars, selectedCustomer, drivers, selectedDriver, selectedDate, orders, loading,
                   draggedIndex, crashed, mapsLoaded, driversPending, loadPending, store>>
    /\ UNCHANGED routeVars

\* the update-sequence request fails: the catch logs, nothing else
PersistFail(req) ==
    /\ ~crashed
    /\ persistPending' = BagRemove(persistPending, req)
    /\ lastEvent' = "persistFail"
    /\ UNCHANGED <<otherVars, selectedCustomer, drivers, selectedDriver, selectedDate, orders, loading, draggableOrder,
                   draggedIndex, crashed, mapsLoaded, driversPending, loadPending, store>>
    /\ UNCHANGED routeVars

\* the directions callback with status OK and the route `route`
DirectionsOk(req, route) ==
    /\ ~crashed
    /\ dirPending' = BagRemove(dirPending, req)
    /\ routeLoading' = FALSE
    /\ routeInfo' = RouteInfoOf(route)
    /\ fallbackRoute' = fallbackRoute
    /\ lastEvent' = "directionsOk"
    /\ UNCHANGED <<otherVars, selectedCustomer, drivers, selectedDriver, selectedDate, orders, loading, draggableOrder,
                   draggedIndex, crashed, mapsLoaded, driversPending, loadPending, persistPending, store>>

\* the directions callback with another status: setRouteInfo(null); the
\* straight-line fallback is drawn on the map of the request's initializeMap
\* call, which the element shows as long as no later call has replaced it
DirectionsFailed(req) ==
    /\ ~crashed
    /\ dirPending' = BagRemove(dirPending, req)
    /\ routeLoading' = FALSE
    /\ routeInfo' = <<>>
    /\ fallbackRoute' = IF req.current THEN FallbackPolylines(req) ELSE fallbackRoute
    /\ lastEvent' = "directionsFailed"
    /\ UNCHANGED <<otherVars, selectedCustomer, drivers, selectedDriver, selectedDate, orders, loading, draggableOrder,
                   draggedIndex, crashed, mapsLoaded, driversPending, loadPending, persistPending, store>>

Next ==
    \/ FetchDriversOk
    \/ FetchDriversFail
    \/ \E d \in DriverIds : SelectDriver(d)
    \/ \E t \in Dates \cup {NoDate} : SelectDate(t)
    \/ \E req \in DOMAIN loadPending :
         \E resp \in StoreResponses(req.driver, req.date) : LoadOk(req, resp)
    \/ \E req \in DOMAIN loadPending : LoadFail(req)
    \/ \E index \in 0..(Len(draggableOrder) - 1) : handleDragStart(index)
    \/ handleDragEnd
    \/ \E index \in 0..(Len(draggableOrder) - 1) : handleDrop(index)
    \/ \E req \in DOMAIN persistPending : PersistOk(req)
    \/ \E req \in DOMAIN persistPending : PersistFail(req)
    \/ \E req \in DOMAIN dirPending : \E route \in ProviderResults(req) : DirectionsOk(req, route)
    \/ \E req \in DOMAIN dirPending : DirectionsFailed(req)

Spec == Init /\ [][Next]_vars

\* a request in flight is answered, with success or with a failure
Answered ==
    \/ FetchDriversFail
    \/ FetchDriversOk
    \/ \E req \in DOMAIN loadPending : LoadFail(req)
    \/ \E req \in DOMAIN persistPending : PersistFail(req)
    \/ \E req \in DOMAIN dirPending : DirectionsFailed(req)
    \/ \E req \in DOMAIN persistPending : PersistOk(req)
    \/ \E req \in DOMAIN loadPending :
         \E resp \in StoreResponses(req.driver, req.date) : LoadOk(req, resp)
    \/ \E req \in DOMAIN dirPending : \E route \in ProviderResults(req) : DirectionsOk(req, route)

\* the whole page, every request in flight being answered eventually: the
\* promise of each api call and the directions callback settle
SpecLive == Init /\ [][Next]_vars /\ WF_vars(Answered)

----------------------------------------------------------------------------
(* Reordering one loaded list.  The screen shows the stops of DragDriver    *)
(* for today: the load has completed and the directions requests it caused *)
(* have been refused.  Only drags, drops and the answers to the requests    *)
(* they issue follow, and the store processes every update-sequence         *)
(* request successfully.                                                   *)

\* the lists a load may have left: the first n of the stops, for every n
\* (the stops differ in nothing but their name)
LoadedLists == {SubSeq(StopNames, 1, n) : n \in 0..Cardinality(DragStops)}

InitDrag ==
    /\ drivers = {DragDriver}
    /\ selectedDriver = DragDriver
    /\ selectedDate = Today
    /\ orders \in LoadedLists
    /\ loading = FALSE
    /\ routeLoading = FALSE
    /\ draggableOrder = orders
    /\ draggedIndex = NoIndex
    /\ selectedCustomer = NoCustomer
    /\ OtherPagesAtRest
    /\ routeInfo = <<>>
    /\ crashed = FALSE
    /\ mapsLoaded \in BOOLEAN
    /\ fallbackRoute = IF mapsLoaded /\ orders # <<>>
                       THEN LegsOf(RoutePoints(BaseLocation(DragDriver), orders))
                       ELSE NoRoute
    /\ driversPending = FALSE
    /\ loadPending = EmptyBag
    /\ persistPending = EmptyBag
    /\ dirPending = EmptyBag
    /\ store = [o \in OrderIds |-> Absent]
    /\ lastEvent = IF mapsLoaded /\ orders # <<>> THEN "directionsFailed" ELSE "loadOk"

NextDrag ==
    \/ \E index \in 0..(Len(draggableOrder) - 1) : handleDragStart(index)
    \/ handleDragEnd
    \/ \E index \in 0..(Len(draggableOrder) - 1) : handleDrop(index)
    \/ \E req \in DOMAIN persistPending : PersistOk(req)
    \/ \E req \in DOMAIN dirPending : \E route \in ProviderResults(req) : DirectionsOk(req, route)
    \/ \E req \in DOMAIN dirPending : DirectionsFailed(req)

SpecDrag == InitDrag /\ [][NextDrag]_vars

\* The gestures on the cards of the loaded list: a card is clicked, dragged
\* over other cards and dropped, while the store accepts or rejects the
\* update-sequence requests the drops issue and the directions provider
\* refuses theirs.
NextFrame ==
    \/ \E index \in 0..(Len(draggableOrder) - 1) : handleDragStart(index)
    \/ \E index \in 0..(Len(draggableOrder) - 1) : handleDragOver(index)
    \/ handleDragEnd
    \/ \E index \in 0..(Len(draggableOrder) - 1) : SelectCustomer(index)
    \/ \E index \in 0..(Len(draggableOrder) - 1) : handleDrop(index)
    \/ \E req \in DOMAIN persistPending : PersistOk(req)
    \/ \E req \in DOMAIN persistPending : PersistFail(req)
    \/ \E req \in DOMAIN dirPending : DirectionsFailed(req)

SpecFrame == InitDrag /\ [][NextFrame]_vars

\* Reordering the list of a driver whose stops lie at different places: the
\* two orders of d1 are shown in the order of the response that loaded them,
\* the directions requests of the load have been refused, and drags, drops
\* and the answers to the requests they issue follow.
InitRoute ==
    /\ drivers = DriverIds
    /\ selectedDriver = "d1"
    /\ selectedDate = Today
    /\ orders \in Perms(StoreOrders("d1", DateStr(Today)))
    /\ loading = FALSE
    /\ routeLoading = FALSE
    /\ draggableOrder = orders
    /\ draggedIndex = NoIndex
    /\ selectedCustomer = NoCustomer
    /\ OtherPagesAtRest
    /\ routeInfo = <<>>
    /\ crashed = FALSE
    /\ mapsLoaded \in BOOLEAN
    /\ fallbackRoute = IF mapsLoaded
                       THEN LegsOf(RoutePoints(BaseLocation("d1"), orders))
                       ELSE NoRoute
    /\ driversPending = FALSE
    /\ loadPending = EmptyBag
    /\ persistPending = EmptyBag
    /\ dirPending = EmptyBag
    /\ store = [o \in OrderIds |-> Absent]
    /\ lastEvent = IF mapsLoaded THEN "directionsFailed" ELSE "loadOk"

SpecRoute == InitRoute /\ [][NextDrag]_vars

----------------------------------------------------------------------------
(* The move alone.  The screen shows a loaded list of up to MaxStops stops, *)
(* the date picker has been cleared and the maps script is not loaded: a    *)
(* drop reorders the list, saveDeliverySequence returns at once and         *)
(* initializeMap is not called.                                            *)

InitMove ==
    /\ drivers = {DragDriver}
    /\ selectedDriver = DragDriver
    /\ selectedDate = NoDate
    /\ orders \in {SubSeq(StopNames, 1, n) : n \in 0..MaxStops}
    /\ loading = FALSE
    /\ routeLoading = FALSE
    /\ draggableOrder = orders
    /\ draggedIndex = NoIndex
    /\ selectedCustomer = NoCustomer
    /\ OtherPagesAtRest
    /\ routeInfo = <<>>
    /\ fallbackRoute = NoRoute
    /\ crashed = FALSE
    /\ mapsLoaded = FALSE
    /\ driversPending = FALSE
    /\ loadPending = EmptyBag
    /\ persistPending = EmptyBag
    /\ dirPending = EmptyBag
    /\ store = [o \in OrderIds |-> Absent]
    /\ lastEvent = "selectDate"

NextMove ==
    \/ \E index \in 0..(Len(draggableOrder) - 1) : handleDragStart(index)
    \/ handleDragEnd
    \/ \E index \in 0..(Len(draggableOrder) - 1) : handleDrop(index)

SpecMove == InitMove /\ [][NextMove]_vars

----------------------------------------------------------------------------
(* The load of a list whose stops were sequenced before.  SortDriver has    *)
(* just been selected and its load is in flight.  An update-sequence        *)
(* request for some of its orders, in some order, was processed earlier     *)
(* (the orders it did not name were created afterwards and have no          *)
(* sequence number).                                                        *)

\* the store after an update-sequence request for `ids` on unsequenced orders
StoreOf(ids) ==
    [o \in OrderIds |->
        IF \E k \in 1..Len(ids) : ids[k] = o
        THEN (CHOOSE k \in 1..Len(ids) : ids[k] = o) - 1 + SeqBase
        ELSE Absent]

InitSort ==
    /\ drivers = {SortDriver}
    /\ selectedDriver = SortDriver
    /\ selectedDate = Today
    /\ orders = <<>>
    /\ loading = TRUE
    /\ routeLoading = FALSE
    /\ draggableOrder = <<>>
    /\ draggedIndex = NoIndex
    /\ selectedCustomer = NoCustomer
    /\ OtherPagesAtRest
    /\ routeInfo = <<>>
    /\ fallbackRoute = NoRoute
    /\ crashed = FALSE
    /\ mapsLoaded \in BOOLEAN
    /\ driversPending = FALSE
    /\ loadPending = BagAdd(EmptyBag, [driver |-> SortDriver, date |-> DateStr(Today)])
    /\ persistPending = EmptyBag
    /\ dirPending = EmptyBag
    /\ store \in {StoreOf(p) : p \in UNION {Perms(S) : S \in SUBSET SortStops}}
    /\ lastEvent = "selectDriver"

NextSort ==
    \/ \E req \in DOMAIN loadPending :
         \E resp \in StoreResponses(req.driver, req.date) : LoadOk(req, resp)
    \/ \E req \in DOMAIN loadPending : LoadFail(req)
    \/ \E req \in DOMAIN dirPending : \E route \in ProviderResults(req) : DirectionsOk(req, route)
    \/ \E req \in DOMAIN dirPending : DirectionsFailed(req)

SpecSort == InitSort /\ [][NextSort]_vars

----------------------------------------------------------------------------
(* Selecting among drivers with and without orders.  The drivers have been  *)
(* fetched: d1, d2 and VacantDriver.  Only selections, the answers to the    *)
(* loads and the answers to the directions requests follow.                 *)

InitLoad ==
    /\ drivers = DriverIds \cup {VacantDriver}
    /\ selectedDriver = NoDriver
    /\ selectedDate = Today
    /\ orders = <<>>
    /\ loading = FALSE
    /\ routeLoading = FALSE
    /\ draggableOrder = <<>>
    /\ draggedIndex = NoIndex
    /\ selectedCustomer = NoCustomer
    /\ OtherPagesAtRest
    /\ routeInfo = <<>>
    /\ fallbackRoute = NoRoute
    /\ crashed = FALSE
    /\ mapsLoaded \in BOOLEAN
    /\ driversPending = FALSE
    /\ loadPending = EmptyBag
    /\ persistPending = EmptyBag
    /\ dirPending = EmptyBag
    /\ store = [o \in OrderIds |-> Absent]
    /\ lastEvent = "driversOk"

NextLoad ==
    \/ \E d \in drivers : SelectDriver(d)
    \/ \E req \in DOMAIN loadPending :
         \E resp \in StoreResponses(req.driver, req.date) : LoadOk(req, resp)
    \/ \E req \in DOMAIN loadPending : LoadFail(req)
    \/ \E req \in DOMAIN dirPending : \E route \in ProviderResults(req) : DirectionsOk(req, route)
    \/ \E req \in DOMAIN dirPending : DirectionsFailed(req)

SpecLoad == InitLoad /\ [][NextLoad]_vars

----------------------------------------------------------------------------
(* The API client and the route guard.  Every page calls the store through *)
(* the axios instance `api`, whose response interceptor handles the failed  *)
(* calls; every page but the login page is wrapped in PrivateRoute, which   *)
(* renders from the loading and isAuthenticated values of the auth context. *)

\* the response statuses of the failed calls
Statuses == {400, 401, 500}

\* what the data of a failed response holds: nothing, a message field, an
\* error field, or neither field
DataKinds == {"none", "message", "error", "other"}

\* the errors the interceptor receives: a response with a status and data,
\* or no response (network error, timeout) with or without a message
AxiosErrors ==
    {[response |-> TRUE, status |-> s, data |-> d, message |-> "Request failed"] :
        s \in Statuses, d \in DataKinds}
    \cup {[response |-> FALSE, status |-> 0, data |-> "none", message |-> m] :
             m \in {"Network Error", ""}}

\* errorMessage: data.message, else data.error, else error.message when the
\* response has no data, else the default text
ErrorMessage(error) ==
    IF error.response /\ error.data # "none"
    THEN IF error.data = "message" THEN "data.message"
         ELSE IF error.data = "error" THEN "data.error"
         ELSE "An unexpected error occurred"
    ELSE IF error.message # "" THEN error.message
    ELSE "An unexpected error occurred"

\* A status that is 500 for every error: the variant C28 tells from
\* StandardStatus.
StandardStatusFixed(error) == 500

\* error.response?.status || 500
StandardStatus(error) == IF error.response /\ error.status # 0 THEN error.status ELSE 500

\* the standardizedError object
StandardizedError(error) ==
    [kind |-> "standardized",
     message |-> ErrorMessage(error),
     status |-> StandardStatus(error),
     data |-> IF error.response /\ error.data # "none" THEN error.data ELSE "null",
     originalError |-> error]

\* the response interceptor's error handler
ResponseError(error) ==
    /\ error \in AxiosErrors
    /\ IF error.response /\ error.status = 401
       THEN /\ token' = FALSE
            /\ user' = FALSE
            /\ location' = "/login"
            /\ toasts' = toasts
            /\ outcome' = [kind |-> "error", originalError |-> error]
       ELSE /\ toasts < MaxToasts
            /\ toasts' = toasts + 1
            /\ outcome' = StandardizedError(error)
            /\ UNCHANGED <<token, user, location>>
    /\ UNCHANGED <<pageVars, guardVars, assignVars>>

\* the response interceptor's success handler: the response is passed on
ResponseOk ==
    /\ outcome # NoOutcome
    /\ outcome' = NoOutcome
    /\ UNCHANGED <<token, user, location, toasts>>
    /\ UNCHANGED <<pageVars, guardVars, assignVars>>

\* A guard that tests isAuthenticated before loading: the variant C29 tells
\* from PrivateRoute.
PrivateRouteEager(checking, authenticated) ==
    IF ~authenticated THEN "redirect"
    ELSE IF checking THEN "spinner"
    ELSE "children"

\* what PrivateRoute renders for the values useAuth() returns
PrivateRoute(checking, authenticated) ==
    IF checking THEN "spinner"
    ELSE IF ~authenticated THEN "redirect"
    ELSE "children"

\* the auth context provides new values and PrivateRoute renders again
AuthChange(checking, authenticated) ==
    /\ <<checking, authenticated>> # <<authLoading, isAuthenticated>>
    /\ authLoading' = checking
    /\ isAuthenticated' = authenticated
    /\ guardView' = PrivateRoute(checking, authenticated)
    /\ UNCHANGED <<pageVars, clientVars, assignVars>>

InitSession ==
    /\ InitPage
    /\ AssignAtRest
    /\ token \in BOOLEAN
    /\ user \in BOOLEAN
    /\ location = "/"
    /\ toasts = 0
    /\ outcome = NoOutcome
    /\ authLoading \in BOOLEAN
    /\ isAuthenticated \in BOOLEAN
    /\ guardView = PrivateRoute(authLoading, isAuthenticated)

NextSession ==
    \/ \E error \in AxiosErrors : ResponseError(error)
    \/ ResponseOk
    \/ \E checking, authenticated \in BOOLEAN : AuthChange(checking, authenticated)

SpecSession == InitSession /\ [][NextSession]_vars

----------------------------------------------------------------------------
(* The Assign Driver page.                                                 *)

\* the ids of the orders the store may list as unassigned
AssignOrderIds == {"o1", "o2"}

\* the ids of the drivers
AssignDriverIds == {"d1", "d2"}

\* what GET /orders/unassigned answers: some of the orders, each once
UnassignedResponses == UNION {Perms(S) : S \in SUBSET AssignOrderIds}

\* what GET /drivers answers
DriversResponses == {<<>>, <<"d1", "d2">>}

\* requests of the page in flight
AssignInFlight == fetchPending + BagSize(assignPending)

\* A toggle that never removes an id: the variant C30 tells from ToggleOrder.
ToggleOrderKeep(prev, orderId) ==
    IF orderId \in Range(prev) THEN prev ELSE Append(prev, orderId)

\* prev.includes(orderId) ? prev.filter(id => id !== orderId) : [...prev, orderId]
ToggleOrder(prev, orderId) ==
    IF orderId \in Range(prev)
    THEN SelectSeq(prev, LAMBDA id : id # orderId)
    ELSE Append(prev, orderId)

\* the button's disabled attribute
AssignDisabled == assignSelectedDriver = NoDriver \/ Len(selectedOrders) = 0

\* fetchData resolves: both GETs answered
FetchDataOk(ordersRes, driversRes) ==
    /\ fetchPending > 0
    /\ fetchPending' = fetchPending - 1
    /\ unassignedOrders' = ordersRes
    /\ assignDrivers' = driversRes
    /\ assignLoading' = FALSE
    /\ assignEvent' = "fetchOk"
    /\ UNCHANGED <<assignSelectedDriver, selectedOrders, snackbar, assignPending>>
    /\ UNCHANGED <<pageVars, clientVars, guardVars>>

\* fetchData's catch and finally: one of the GETs was rejected
FetchDataFail ==
    /\ fetchPending > 0
    /\ fetchPending' = fetchPending - 1
    /\ assignLoading' = FALSE
    /\ assignEvent' = "fetchFail"
    /\ UNCHANGED <<unassignedOrders, assignDrivers, assignSelectedDriver, selectedOrders,
                   snackbar, assignPending>>
    /\ UNCHANGED <<pageVars, clientVars, guardVars>>

\* the Autocomplete's onChange: an option, or null when it is cleared
handleDriverSelect(value) ==
    /\ ~assignLoading
    /\ value \in Range(assignDrivers) \cup {NoDriver}
    /\ value # assignSelectedDriver
    /\ assignSelectedDriver' = value
    /\ assignEvent' = "driverSelect"
    /\ UNCHANGED <<unassignedOrders, assignDrivers, assignLoading, selectedOrders, snackbar,
                   fetchPending, assignPending>>
    /\ UNCHANGED <<pageVars, clientVars, guardVars>>

\* a click on the list item of an order
handleOrderSelect(orderId) ==
    /\ ~assignLoading
    /\ orderId \in Range(unassignedOrders)
    /\ selectedOrders' = ToggleOrder(selectedOrders, orderId)
    /\ assignEvent' = "orderSelect"
    /\ UNCHANGED <<unassignedOrders, assignDrivers, assignLoading, assignSelectedDriver,
                   snackbar, fetchPending, assignPending>>
    /\ UNCHANGED <<pageVars, clientVars, guardVars>>

\* handleAssign up to its await: the early return, or the POST
handleAssign ==
    /\ assignEvent' = "assign"
    /\ IF assignSelectedDriver = NoDriver \/ Len(selectedOrders) = 0
       THEN /\ snackbar' = [open |-> TRUE,
                            message |-> "Please select a driver and at least one order",
                            severity |-> "error"]
            /\ UNCHANGED assignPending
       ELSE /\ AssignInFlight < MaxAssign
            /\ assignPending' =
                   BagAdd(assignPending,
                          [driverId |-> assignSelectedDriver, orderIds |-> selectedOrders])
            /\ UNCHANGED snackbar
    /\ UNCHANGED <<unassignedOrders, assignDrivers, assignLoading, assignSelectedDriver,
                   selectedOrders, fetchPending>>
    /\ UNCHANGED <<pageVars, clientVars, guardVars>>

\* handleAssign after its await resolved; fetchData runs up to its await
AssignOk(req) ==
    /\ req \in DOMAIN assignPending
    /\ assignPending' = BagRemove(assignPending, req)
    /\ snackbar' = [open |-> TRUE, message |-> "Orders assigned successfully",
                    severity |-> "success"]
    /\ assignSelectedDriver' = NoDriver
    /\ selectedOrders' = <<>>
    /\ assignLoading' = TRUE
    /\ fetchPending' = fetchPending + 1
    /\ assignEvent' = "assignOk"
    /\ UNCHANGED <<unassignedOrders, assignDrivers>>
    /\ UNCHANGED <<pageVars, clientVars, guardVars>>

\* handleAssign's catch: the POST was rejected
AssignFail(req) ==
    /\ req \in DOMAIN assignPending
    /\ assignPending' = BagRemove(assignPending, req)
    /\ assignEvent' = "assignFail"
    /\ UNCHANGED <<unassignedOrders, assignDrivers, assignLoading, assignSelectedDriver,
                   selectedOrders, snackbar, fetchPending>>
    /\ UNCHANGED <<pageVars, clientVars, guardVars>>

\* the snackbar's onClose: the close button, or autoHideDuration has passed
handleCloseSnackbar ==
    /\ snackbar.open
    /\ snackbar' = [snackbar EXCEPT !.open = FALSE]
    /\ assignEvent' = "closeSnackbar"
    /\ UNCHANGED <<unassignedOrders, assignDrivers, assignLoading, assignSelectedDriver,
                   selectedOrders, fetchPending, assignPending>>
    /\ UNCHANGED <<pageVars, clientVars, guardVars>>

\* the page is mounted: the effect has called fetchData
InitAssign ==
    /\ InitPage
    /\ token = TRUE
    /\ user = TRUE
    /\ location = "/"
    /\ toasts = 0
    /\ outcome = NoOutcome
    /\ authLoading = FALSE
    /\ isAuthenticated = TRUE
    /\ guardView = "children"
    /\ AssignInitialState
    /\ fetchPending = 1
    /\ assignPending = EmptyBag
    /\ assignEvent = "mount"

\* the button is rendered when the page is not loading, and clicked when it
\* is not disabled
NextAssign ==
    \/ \E ordersRes \in UnassignedResponses, driversRes \in DriversResponses :
           FetchDataOk(ordersRes, driversRes)
    \/ FetchDataFail
    \/ \E value \in AssignDriverIds \cup {NoDriver} : handleDriverSelect(value)
    \/ \E orderId \in AssignOrderIds : handleOrderSelect(orderId)
    \/ ~assignLoading /\ ~AssignDisabled /\ handleAssign
    \/ \E req \in DOMAIN assignPending : AssignOk(req)
    \/ \E req \in DOMAIN assignPending : AssignFail(req)
    \/ handleCloseSnackbar

SpecAssign == InitAssign /\ [][NextAssign]_vars

----------------------------------------------------------------------------
(* Properties.                                                             *)

\* C1: the answer to a directions request that is no longer the current one
\* (a later initializeMap replaced its map), arriving when the current
\* request has been answered, is discarded: it changes neither routeInfo nor
\* routeLoading.
C1_StaleAnswerDiscarded ==
    [][\A req \in DOMAIN dirPending :
          (/\ ~req.current
           /\ \A r \in DOMAIN dirPending : ~r.current
           /\ \/ \E route \in ProviderResults(req) : DirectionsOk(req, route)
              \/ DirectionsFailed(req))
          => (routeInfo' = routeInfo /\ routeLoading' = routeLoading)]_vars

\* the stored sequence numbers say that `list` is the saved order
StoreMatches(list) == \A i \in 1..Len(list) : store[list[i]] = i - 1 + SeqBase

\* the update-sequence request a drop is to post for the list shown
PersistOfShown ==
    [orderIds |-> draggableOrder, driverId |-> selectedDriver,
     deliveryDate |-> DateStr(selectedDate)]

\* C2: when the load that a selection of driver or date has just requested is
\* answered, no other load being in flight, and every stop then shown has a
\* stored sequence number (a drop's update-sequence request succeeded), the
\* stops are shown in the persisted order: ascending by stored sequence
\* number, the first position included.
C2_ReloadShowsPersistedOrder ==
    [][(/\ lastEvent \in {"selectDriver", "selectDate"} /\ selectedDate # NoDate
        /\ lastEvent' = "loadOk" /\ loadPending' = EmptyBag
        /\ \A o \in Range(draggableOrder') : store[o] # Absent)
       => \A i \in 1..(Len(draggableOrder') - 1) :
              store[draggableOrder'[i]] < store[draggableOrder'[i + 1]]]_vars

\* C3: when a load has completed and the screen has settled, the list shown
\* is ascending by stored sequence number if the stops have one, and
\* ascending by orderNumber string comparison otherwise, whatever the order
\* of the response.
C3_InitialOrderSorted ==
    (lastEvent = "loadOk" /\ loadPending = EmptyBag) =>
        \A i \in 1..(Len(draggableOrder) - 1) :
            IF \A o \in Range(draggableOrder) : store[o] # Absent
            THEN store[draggableOrder[i]] <= store[draggableOrder[i + 1]]
            ELSE LocaleCompare(OrderNumber(draggableOrder[i]),
                               OrderNumber(draggableOrder[i + 1])) <= 0

\* C4: with a driver and a date selected, every drop that changes the list
\* posts exactly one update-sequence request, which carries the ids of the
\* new list in order, the selected driver and the selected date.
C4_DropPersistsNewOrder ==
    [][(/\ lastEvent' = "drop"
        /\ draggableOrder' # draggableOrder
        /\ selectedDriver # NoDriver /\ selectedDate # NoDate)
       => persistPending' = BagAdd(persistPending, PersistOfShown')]_vars

\* C5: a drop shows the new order while its update-sequence request is still
\* in flight, and when an update-sequence request fails the list stays as it
\* is and no request is posted again.
C5_OptimisticNoRollback ==
    [][/\ (lastEvent' = "drop" /\ persistPending' # persistPending)
            => /\ draggableOrder' # draggableOrder
               /\ \E r \in DOMAIN persistPending' : r.orderIds = draggableOrder'
       /\ lastEvent' = "persistFail"
            => /\ draggableOrder' = draggableOrder
               /\ store' = store
               /\ BagSize(persistPending') = BagSize(persistPending) - 1]_vars

\* the list was reordered, its update-sequence request failed, and the
\* reordered list is still shown
C5_Witness ==
    /\ lastEvent = "persistFail"
    /\ persistPending = EmptyBag
    /\ Len(draggableOrder) > 1
    /\ draggableOrder # FilterWithCoords(orders)

\* C6: in one driver and date context, with every update-sequence request
\* processed successfully, once none is in flight the store holds the order
\* shown (the order of the most recent drop), in whatever order the store
\* processed the requests.
C6_StoreEqualsLastDrop ==
    (persistPending = EmptyBag /\ \E o \in OrderIds : store[o] # Absent)
        => StoreMatches(draggableOrder)

\* C7: a response to a load for a driver or date that is no longer the
\* selected one, arriving last while the orders of the selected driver and
\* date are shown, replaces neither the loaded orders nor the list shown.
C7_LateLoadDiscarded ==
    [][\A req \in DOMAIN loadPending :
          \A resp \in StoreResponses(req.driver, req.date) :
              (/\ LoadOk(req, resp)
               /\ selectedDriver # NoDriver /\ selectedDate # NoDate
               /\ req # [driver |-> selectedDriver, date |-> DateStr(selectedDate)]
               /\ loadPending' = EmptyBag
               /\ Range(orders) = StoreOrders(selectedDriver, DateStr(selectedDate)))
              => (orders' = orders /\ draggableOrder' = draggableOrder)]_vars

\* C8: a drop on index `index` of the stop dragged from a valid index other
\* than `index` gives a list of the same length with the same stops, the
\* moved stop at `index` and the other stops in their former relative order.
C8_MoveSemantics ==
    [][\A index \in 0..(Len(draggableOrder) - 1) :
          (/\ draggedIndex \in 0..(Len(draggableOrder) - 1)
           /\ draggedIndex # index
           /\ handleDrop(index))
          => /\ Len(draggableOrder') = Len(draggableOrder)
             /\ Range(draggableOrder') = Range(draggableOrder)
             /\ draggableOrder'[index + 1] = draggableOrder[draggedIndex + 1]
             /\ RemoveAt(draggableOrder', index + 1)
                    = RemoveAt(draggableOrder, draggedIndex + 1)]_vars

\* the first of MaxStops stops was dropped on the last position
C8_Witness ==
    /\ lastEvent = "drop"
    /\ Len(orders) = MaxStops
    /\ draggableOrder = Tail(orders) \o <<Head(orders)>>

\* C9: a drop whose recorded dragged index is not an index of the list shown
\* leaves the list unchanged.
C9_OutOfBoundsNoOp ==
    [][\A index \in 0..(Len(draggableOrder) - 1) :
          (/\ draggedIndex # NoIndex
           /\ draggedIndex >= Len(draggableOrder)
           /\ handleDrop(index))
          => draggableOrder' = draggableOrder]_vars

\* C10: a drop on the index the stop was dragged from leaves the list as it
\* was and posts no update-sequence request.
C10_DropOnOwnIndex ==
    [][\A index \in 0..(Len(draggableOrder) - 1) :
          (draggedIndex = index /\ handleDrop(index))
          => (draggableOrder' = draggableOrder /\ persistPending' = persistPending)]_vars

\* a stop of a list of several was dropped where it was dragged from
C10_Witness ==
    /\ lastEvent = "dropIgnored"
    /\ draggedIndex # NoIndex
    /\ Len(draggableOrder) > 1

\* C11: a drop of the stop dragged from a valid index onto another valid
\* index is undone by the inverse move: moving the stop at `index` of the new
\* list back to the index it was dragged from gives the former list.
C11_MoveInverse ==
    [][\A index \in 0..(Len(draggableOrder) - 1) :
          (/\ draggedIndex \in 0..(Len(draggableOrder) - 1)
           /\ draggedIndex # index
           /\ Len(draggableOrder) >= 2
           /\ handleDrop(index))
          => MoveStop(draggableOrder', index, draggedIndex) = draggableOrder]_vars

\* a list of MaxStops stops was reordered by a drop and a later drop has
\* brought the loaded order back
C11_Witness ==
    /\ lastEvent = "drop"
    /\ Len(orders) = MaxStops
    /\ draggableOrder = orders

\* C12: the stop list shown holds each loaded order that passes the
\* coordinate filter exactly once, nothing else and no undefined entry; the
\* orders reported as without coordinates are exactly the loaded orders that
\* are not in it.
C12_Partition ==
    /\ \A i, j \in 1..Len(draggableOrder) : draggableOrder[i] = draggableOrder[j] => i = j
    /\ Undefined \notin Range(draggableOrder)
    /\ Range(draggableOrder) = {o \in Range(orders) : HasCoords(o)}
    /\ Range(orders) \ Range(draggableOrder) = {o \in Range(orders) : ~HasCoords(o)}

\* C13: the sort that the load performs gives the same order whatever order
\* the store returned the stops in: when a response is handled, the sorted
\* list is the one every other response for the same request would give.
C13_SortDeterministic ==
    [][\A req \in DOMAIN loadPending :
          \A resp \in StoreResponses(req.driver, req.date) :
              LoadOk(req, resp)
              => \A other \in StoreResponses(req.driver, req.date) :
                     SortedStops(other) = SortedStops(resp)]_vars

\* C14: when the route is computed for an empty stop list (a load has left
\* no stop with a coordinate and the maps script is loaded), no directions
\* request is issued, the route is not loading afterwards and no route
\* information is shown.
C14_EmptyListSkipsRouting ==
    [][(/\ mapsLoaded
        /\ lastEvent' = "loadOk"
        /\ draggableOrder' = <<>>)
       => /\ BagSize(dirPending') = BagSize(dirPending)
          /\ ~routeLoading'
          /\ routeInfo' = <<>>]_vars

\* C15: every directions request in flight has one waypoint per stop of the
\* list it was issued for, in the order of that list, waypoint optimization
\* disabled and the base location as origin and as destination; the list of
\* the current request is the stop list shown.
C15_RequestCarriesList ==
    ~crashed =>
        \A r \in DOMAIN dirPending :
            /\ Len(r.request.waypoints) = Len(r.stops)
            /\ \A i \in 1..Len(r.stops) :
                   r.request.waypoints[i].location
                       = [lat |-> CustLat(r.stops[i]), lng |-> CustLng(r.stops[i])]
            /\ r.request.optimizeWaypoints = FALSE
            /\ r.request.origin = r.base
            /\ r.request.destination = r.base
            /\ r.current => r.stops = draggableOrder

\* the request for a list of several stops that a drop has reordered is in
\* flight
C15_Witness ==
    /\ lastEvent = "drop"
    /\ \E r \in DOMAIN dirPending :
           r.current /\ Len(r.stops) > 1 /\ r.stops # FilterWithCoords(orders)

\* the origin the claim names for the driver selected
ExpectedOrigin(driver) ==
    IF driver # NoDriver /\ DriverLat(driver) # Absent /\ DriverLng(driver) # Absent
    THEN [lat |-> DriverLat(driver), lng |-> DriverLng(driver)]
    ELSE [lat |-> 52520, lng |-> 13405]

RECURSIVE SumOfLegs(_, _)
SumOfLegs(legs, field) ==
    IF legs = <<>> THEN 0
    ELSE (IF Head(legs)[field] = Absent THEN 0 ELSE Head(legs)[field])
         + SumOfLegs(Tail(legs), field)

\* C16: when the provider answers a request with status OK, the route
\* information stored has one leg entry per leg of the provider's route, in
\* the provider's order, and its totalDistance and totalDuration are the sums
\* of the legs' distance and duration values, a leg without a value
\* contributing 0.
C16_RouteTotals ==
    [][\A req \in DOMAIN dirPending : \A route \in ProviderResults(req) :
          (lastEvent' = "directionsOk" /\ DirectionsOk(req, route))
          => /\ Len(routeInfo') = 1
             /\ Len(routeInfo'[1].legs) = Len(route.legs)
             /\ \A i \in 1..Len(route.legs) :
                    /\ routeInfo'[1].legs[i].distance = route.legs[i].distance
                    /\ routeInfo'[1].legs[i].duration = route.legs[i].duration
                    /\ routeInfo'[1].legs[i].startAddress = route.legs[i].start
                    /\ routeInfo'[1].legs[i].endAddress = route.legs[i].end
             /\ routeInfo'[1].totalDistance = SumOfLegs(route.legs, "distance")
             /\ routeInfo'[1].totalDuration = SumOfLegs(route.legs, "duration")]_vars

\* an OK answer has been stored whose route has a leg without a value and
\* legs with a value
C16_Witness ==
    /\ lastEvent = "directionsOk"
    /\ routeInfo # <<>>
    /\ \E i \in 1..Len(routeInfo[1].legs) : routeInfo[1].legs[i].distance = Absent
    /\ routeInfo[1].totalDistance > 0
    /\ Len(routeInfo[1].legs) > 2

\* C17: when the provider answers the request for n >= 1 stops with a status
\* other than OK, the fallback drawn has n + 1 straight legs, leg k joining
\* the k-th and the (k+1)-th point of origin, stop 1, ..., stop n, origin in
\* waypoint order, and the route information is cleared.
C17_FallbackLegs ==
    [][\A req \in DOMAIN dirPending :
          (lastEvent' = "directionsFailed" /\ DirectionsFailed(req))
          => /\ routeInfo' = <<>>
             /\ (req.current /\ Len(req.stops) >= 1)
                => LET n == Len(req.stops)
                       points == <<req.request.origin>>
                                 \o [i \in 1..n |-> req.request.waypoints[i].location]
                                 \o <<req.request.origin>>
                   IN  /\ Len(fallbackRoute') = n + 1
                       /\ \A k \in 1..(n + 1) :
                              fallbackRoute'[k] = [start |-> points[k], end |-> points[k + 1]]]_vars

\* the fallback of a request for several stops is drawn
C17_Witness ==
    /\ lastEvent = "directionsFailed"
    /\ routeInfo = <<>>
    /\ Len(fallbackRoute) > 2
    /\ draggableOrder # orders

\* the banner "Using fallback route calculation (straight lines)" is rendered
FallbackWarningShown ==
    ~crashed /\ routeInfo = <<>> /\ FilterWithCoords(orders) # <<>> /\ ~routeLoading

\* the banner "Showing optimized road routes" is rendered
RouteInformationShown == ~crashed /\ routeInfo # <<>>

\* a failed request for the stop list shown has drawn its fallback on the map
\* the element shows
FallbackDrawnForShownList ==
    /\ Len(fallbackRoute) = Len(draggableOrder) + 1
    /\ \A i \in 1..Len(draggableOrder) :
           fallbackRoute[i].end
               = [lat |-> CustLat(draggableOrder[i]), lng |-> CustLng(draggableOrder[i])]

\* C18: whenever the fallback warning is shown, the latest route computation
\* for the stop list shown was answered by the provider with a failure, and
\* whenever provider route information is shown the warning is not shown.
C18_FallbackFlagging ==
    /\ FallbackWarningShown => FallbackDrawnForShownList
    /\ RouteInformationShown => ~FallbackWarningShown

\* C20: when the only load in flight, issued for the driver and date now
\* selected and still shown as loading, fails, the screen ends with loading false and with no orders and
\* no stops, so that no stop of the selection before remains displayed or
\* draggable; selecting another driver issues a new load.
C20_LoadFailureEmptyState ==
    [][/\ \A req \in DOMAIN loadPending :
              (/\ lastEvent' = "loadFail"
               /\ BagSize(loadPending) = 1
               /\ loading
               /\ req.driver = selectedDriver
               /\ selectedDate # NoDate
               /\ LoadFail(req))
              => (~loading' /\ orders' = <<>> /\ draggableOrder' = <<>> /\ ~CardsRendered')
       /\ \A d \in drivers :
              (d # selectedDriver /\ selectedDate # NoDate /\ SelectDriver(d))
              => BagSize(loadPending') = BagSize(loadPending) + 1]_vars

\* C21: the route state is Loading exactly while the directions request
\* issued for the latest stop list is unanswered; an answer to an earlier
\* request does not end Loading.
C21_LoadingUntilLatestAnswer ==
    ~crashed => (routeLoading <=> \E r \in DOMAIN dirPending : r.current)

\* C22: with the maps script loaded, each event that changes the stop list
\* to a non-empty list (a completed load, a drop that changes the order)
\* causes exactly one directions request, issued for the new list.
C22_OneRequestPerChange ==
    [][(/\ mapsLoaded
        /\ ~crashed'
        /\ draggableOrder' # draggableOrder
        /\ draggableOrder' # <<>>)
       => /\ BagSize(dirPending') = BagSize(dirPending) + 1
          /\ \E r \in DOMAIN dirPending' : r.current /\ r.stops = draggableOrder']_vars

\* C23: with a driver and a date selected and the maps script loaded, every
\* drop that changes the order posts the update-sequence request for the new
\* order and triggers the route computation for that same order while the
\* update-sequence request is still unanswered; a failing update-sequence
\* request leaves the route computation as it is.
C23_ReorderSequence ==
    [][/\ \A index \in 0..(Len(draggableOrder) - 1) :
              (/\ selectedDriver # NoDriver /\ selectedDate # NoDate /\ mapsLoaded
               /\ handleDrop(index)
               /\ draggableOrder' # draggableOrder)
              => /\ \E p \in DOMAIN persistPending' :
                        /\ p.orderIds = draggableOrder'
                        /\ BagSize(persistPending') = BagSize(persistPending) + 1
                 /\ \E r \in DOMAIN dirPending' : r.current /\ r.stops = draggableOrder'
                 /\ routeLoading'
       /\ \A req \in DOMAIN persistPending :
              (lastEvent' = "persistFail" /\ PersistFail(req))
              => (dirPending' = dirPending /\ routeLoading' = routeLoading)]_vars

\* C24: a drop leaves the loaded orders, the selected driver, the selected
\* date and the selected customer as they were, and a drag start, a drag over
\* and a drag end issue no request to the order store and none to the
\* directions provider.
C24_MoveFrame ==
    [][/\ lastEvent' \in {"drop", "dropIgnored"}
          => /\ orders' = orders
             /\ selectedDriver' = selectedDriver
             /\ selectedDate' = selectedDate
             /\ selectedCustomer' = selectedCustomer
       /\ lastEvent' \in {"dragStart", "dragOver", "dragEnd"}
          => /\ loadPending' = loadPending
             /\ persistPending' = persistPending
             /\ dirPending' = dirPending
             /\ store' = store]_vars

\* a drop has reordered the list while a customer is selected
C24_Witness ==
    /\ lastEvent = "drop"
    /\ selectedCustomer # NoCustomer
    /\ draggableOrder # orders
    /\ dirPending # EmptyBag

\* C25: when every request in flight is answered eventually and the user
\* stops acting, the screen comes to rest mounted, with loading false and
\* routeLoading false; after a failed request the screen is still mounted,
\* so that selecting, dragging and dropping remain available.
C25_NoFailureTerminal ==
    /\ <>[][Answered]_vars => <>[](~crashed /\ ~loading /\ ~routeLoading)
    /\ [](lastEvent \in {"driversFail", "loadFail", "persistFail", "directionsFailed"}
             => ~crashed)

\* C26: every update-sequence request in flight names a driver and a date
\* for which each of its orders was loaded: each order of the request belongs
\* to that driver and to that delivery date.
C26_NoCrossContextPersist ==
    \A p \in DOMAIN persistPending :
        \A i \in 1..Len(p.orderIds) :
            /\ OrderDriver(p.orderIds[i]) = p.driverId
            /\ OrderDate(p.orderIds[i]) = p.deliveryDate

\* C27: whenever route information is present and the route state is not
\* Loading, the information was computed from the stop list shown: it has one
\* leg more than the list has stops, and leg i ends at stop i.
C27_RouteInfoMatchesList ==
    (~crashed /\ routeInfo # <<>> /\ ~routeLoading)
        => /\ Len(routeInfo[1].legs) = Len(draggableOrder) + 1
           /\ \A i \in 1..Len(draggableOrder) :
                  routeInfo[1].legs[i].endAddress
                      = [lat |-> CustLat(draggableOrder[i]), lng |-> CustLng(draggableOrder[i])]

\* C28: for every response with status 401 the interceptor removes the token
\* and the user, redirects to /login, shows no toast and rejects the call;
\* for every other failed call it leaves the token and the user as they are,
\* shows exactly one toast and rejects with a standardized error whose status
\* is the response status, or 500 when there was no response.
C28_SessionExpiry ==
    [][\A error \in AxiosErrors :
          ResponseError(error)
          => IF error.response /\ error.status = 401
             THEN /\ ~token' /\ ~user'
                  /\ location' = "/login"
                  /\ toasts' = toasts
                  /\ outcome'.kind = "error"
             ELSE /\ token' = token /\ user' = user
                  /\ location' = location
                  /\ toasts' = toasts + 1
                  /\ outcome'.kind = "standardized"
                  /\ outcome'.status = IF error.response THEN error.status ELSE 500]_vars

\* a call has been rejected with the standardized error of a response with
\* status 400 after a 401 response has ended the session
C28_Witness ==
    /\ outcome.kind = "standardized"
    /\ outcome.status = 400
    /\ toasts = 1
    /\ ~token /\ ~user
    /\ location = "/login"

\* C29: the guard renders the page only when the authentication check has
\* finished and the user is authenticated; while the check is in progress it
\* renders the spinner, and when the check has finished with the user not
\* authenticated it redirects to /login.
C29_RouteGuard ==
    /\ guardView = "children" => (~authLoading /\ isAuthenticated)
    /\ authLoading => guardView = "spinner"
    /\ (~authLoading /\ ~isAuthenticated) => guardView = "redirect"

\* the guard renders the spinner while the check is in progress for a user
\* who is not authenticated, after a call was rejected with status 401
C29_Witness ==
    /\ guardView = "spinner"
    /\ authLoading /\ ~isAuthenticated
    /\ outcome.kind = "error"

\* the array holds no id twice
NoDuplicates(s) == \A i, j \in 1..Len(s) : s[i] = s[j] => i = j

\* what a step of the Assign Driver page does to the requests and to the
\* two selections
AssignSteps ==
    /\ assignPending' # assignPending /\ BagSize(assignPending') > BagSize(assignPending)
           => /\ assignSelectedDriver # NoDriver
              /\ Len(selectedOrders) >= 1
              /\ assignPending' =
                     BagAdd(assignPending, [driverId |-> assignSelectedDriver,
                                            orderIds |-> selectedOrders])
    /\ assignEvent' = "assignOk"
           => /\ assignSelectedDriver' = NoDriver
              /\ selectedOrders' = <<>>
              /\ fetchPending' = fetchPending + 1
              /\ assignLoading'
    /\ assignEvent' = "assignFail"
           => /\ assignSelectedDriver' = assignSelectedDriver
              /\ selectedOrders' = selectedOrders

====
